---- MODULE Spec2Model ----
(***************************************************************************)
(* Model of the SQL Server -> Databricks DDL converter                     *)
(* (src/sql_to_databricks_converter.py).                                   *)
(*                                                                         *)
(* Text is modelled as a sequence of lexemes ("atoms"): every punctuation  *)
(* character and every whitespace character is an atom of its own, a word  *)
(* (a run of letters and underscores) is one atom, and every digit is one  *)
(* atom.  The Python string is the concatenation of the atoms.  The        *)
(* regular expressions of the source are evaluated atom by atom, with the  *)
(* priorities of Python's backtracking matcher (greedy = longest first,    *)
(* lazy = shortest first, leftmost match first).                           *)
(***************************************************************************)
EXTENDS Integers, Sequences, FiniteSets, TLC

VARIABLES pc,               \* which call has been made last
          content,          \* parse_sql_server_ddl: the document
          preprocessed,     \* parse_sql_server_ddl: content after line 73
          src,              \* the structure the document was written from
          tables,           \* parse_sql_server_ddl: the returned list
          ddl,              \* generate_databricks_ddl / re-parse results
          text,             \* _smart_split: its argument
          parts,            \* _smart_split: the result and the split points
          sql_server_type,  \* convert_data_type: first argument
          params,           \* convert_data_type: second argument
          databricks_type,  \* convert_data_type: the result
          raised,           \* whether the call ended by raising an exception
          reparsed,         \* _parse_columns of the rendered column section
          table_fragment,   \* _parse_single_table: its argument table_content
          body_span,        \* _parse_single_table: start_idx and end_idx after the loop
          table_result,     \* _parse_single_table: the returned table_info
          user_prompt,      \* call_llm_until_complete: its argument
          accumulated,      \* call_llm_until_complete: the output so far
          current_prompt,   \* call_llm_until_complete: the prompt of the next request
          rounds,           \* the requests sent and what the endpoint answered
          llm_raw_response, \* the file llm_raw_response.json
          final_output,     \* call_llm_until_complete: the returned text or the exception
          sql_text,         \* split_into_chunks: its argument text
          chunk_size,       \* split_into_chunks: its argument chunk_size
          chunks,           \* split_into_chunks: the list chunks
          start,            \* split_into_chunks: the local start
          idx,              \* process_and_write: the index of the next chunk
          converted,        \* the calls of call_llm made and what they returned
          output_file       \* the file converted_databricks.sql

vars == <<pc, content, preprocessed, src, tables, ddl, text, parts,
          sql_server_type, params, databricks_type, raised, reparsed,
          table_fragment, body_span, table_result,
          user_prompt, accumulated, current_prompt, rounds, llm_raw_response, final_output,
          sql_text, chunk_size, chunks, start, idx, converted, output_file>>

\* Python's None where a string is expected (Optional[str]), Python's None
\* where a match object or a dict is expected, and the marker of an exception
\* leaving a function.
None == <<"None">>
NoneRec == [none |-> TRUE]
Raised == [raised |-> TRUE]

----------------------------------------------------------------------------
\* Sequence helpers.

Range(s) == {s[i] : i \in 1..Len(s)}

\* s[a..b) in Python's notation with 0-based a, b: atoms a+1 .. b.
Slice(s, a, b) == IF b <= a THEN <<>> ELSE SubSeq(s, a + 1, b)

RECURSIVE SeqsUpTo(_, _)
\* All sequences over S of length at most n.
SeqsUpTo(S, n) ==
  IF n = 0 THEN {<<>>}
  ELSE LET shorter == SeqsUpTo(S, n - 1)
       IN  shorter \cup {Append(s, x) : s \in {t \in shorter : Len(t) = n - 1}, x \in S}

RECURSIVE Flatten(_)
Flatten(ss) == IF ss = <<>> THEN <<>> ELSE Head(ss) \o Flatten(Tail(ss))

RECURSIVE Join(_, _)
\* sep.join(ss)
Join(sep, ss) ==
  IF ss = <<>> THEN <<>>
  ELSE IF Len(ss) = 1 THEN ss[1]
  ELSE ss[1] \o sep \o Join(sep, Tail(ss))

Min(S) == CHOOSE x \in S : \A y \in S : x <= y
Max(S) == CHOOSE x \in S : \A y \in S : x >= y

----------------------------------------------------------------------------
\* Character classes of the regular expressions, lifted to atoms.

WS == {" ", "\n"}                       \* \s
Digits == {"0", "1", "2", "3", "4", "5", "6", "7", "8", "9"}
Punct == {"(", ")", "[", "]", ",", ".", "=", "\"", "+", "-", "/*", "*/", ";"}
IsWS(a) == a \in WS
\* [a-zA-Z_]+ : every atom that is not whitespace, punctuation or a digit is
\* a word of letters and underscores.
IsWord(a) == a \notin WS /\ a \notin Punct /\ a \notin Digits

\* str.upper() / str.lower() on the words of the model's alphabet: each
\* entry is <<word as written, word.upper(), word.lower()>>.  Atoms that are
\* not listed (punctuation, digits, whitespace) have no case.
CaseTable ==
  {
    <<"_", "_", "_">>,
    <<"a", "A", "a">>,
    <<"ALLOW_PAGE_LOCKS", "ALLOW_PAGE_LOCKS", "allow_page_locks">>,
    <<"ALLOW_ROW_LOCKS", "ALLOW_ROW_LOCKS", "allow_row_locks">>,
    <<"Amount", "AMOUNT", "amount">>,
    <<"ANSI_NULLS", "ANSI_NULLS", "ansi_nulls">>,
    <<"ASC", "ASC", "asc">>,
    <<"B", "B", "b">>,
    <<"BIGINT", "BIGINT", "bigint">>,
    <<"bigint", "BIGINT", "bigint">>,
    <<"BINARY", "BINARY", "binary">>,
    <<"binary", "BINARY", "binary">>,
    <<"bit", "BIT", "bit">>,
    <<"BOOLEAN", "BOOLEAN", "boolean">>,
    <<"C", "C", "c">>,
    <<"char", "CHAR", "char">>,
    <<"CHECK", "CHECK", "check">>,
    <<"CLUSTERED", "CLUSTERED", "clustered">>,
    <<"CONSTRAINT", "CONSTRAINT", "constraint">>,
    <<"constraint", "CONSTRAINT", "constraint">>,
    <<"CREATE", "CREATE", "create">>,
    <<"create", "CREATE", "create">>,
    <<"DATE", "DATE", "date">>,
    <<"date", "DATE", "date">>,
    <<"DateTime", "DATETIME", "datetime">>,
    <<"datetime", "DATETIME", "datetime">>,
    <<"datetimeoffset", "DATETIMEOFFSET", "datetimeoffset">>,
    <<"dbo", "DBO", "dbo">>,
    <<"DECIMAL", "DECIMAL", "decimal">>,
    <<"Decimal", "DECIMAL", "decimal">>,
    <<"decimal", "DECIMAL", "decimal">>,
    <<"DEFAULT", "DEFAULT", "default">>,
    <<"DELTA", "DELTA", "delta">>,
    <<"DOUBLE", "DOUBLE", "double">>,
    <<"double", "DOUBLE", "double">>,
    <<"EXISTS", "EXISTS", "exists">>,
    <<"FLOAT", "FLOAT", "float">>,
    <<"Float", "FLOAT", "float">>,
    <<"float", "FLOAT", "float">>,
    <<"floats", "FLOATS", "floats">>,
    <<"foo", "FOO", "foo">>,
    <<"FOREIGN", "FOREIGN", "foreign">>,
    <<"geography", "GEOGRAPHY", "geography">>,
    <<"geometry", "GEOMETRY", "geometry">>,
    <<"GO", "GO", "go">>,
    <<"go", "GO", "go">>,
    <<"hierarchyid", "HIERARCHYID", "hierarchyid">>,
    <<"Id", "ID", "id">>,
    <<"IDENTITY", "IDENTITY", "identity">>,
    <<"IF", "IF", "if">>,
    <<"IGNORE_DUP_KEY", "IGNORE_DUP_KEY", "ignore_dup_key">>,
    <<"image", "IMAGE", "image">>,
    <<"INT", "INT", "int">>,
    <<"int", "INT", "int">>,
    <<"Items", "ITEMS", "items">>,
    <<"KEY", "KEY", "key">>,
    <<"key", "KEY", "key">>,
    <<"max", "MAX", "max">>,
    <<"MONEY", "MONEY", "money">>,
    <<"money", "MONEY", "money">>,
    <<"Name", "NAME", "name">>,
    <<"nchar", "NCHAR", "nchar">>,
    <<"NOT", "NOT", "not">>,
    <<"not", "NOT", "not">>,
    <<"NTEXT", "NTEXT", "ntext">>,
    <<"ntext", "NTEXT", "ntext">>,
    <<"NULL", "NULL", "null">>,
    <<"null", "NULL", "null">>,
    <<"NUMERIC", "NUMERIC", "numeric">>,
    <<"numeric", "NUMERIC", "numeric">>,
    <<"NVarChar", "NVARCHAR", "nvarchar">>,
    <<"nvarchar", "NVARCHAR", "nvarchar">>,
    <<"OFF", "OFF", "off">>,
    <<"ON", "ON", "on">>,
    <<"Orders", "ORDERS", "orders">>,
    <<"PAD_INDEX", "PAD_INDEX", "pad_index">>,
    <<"Parts", "PARTS", "parts">>,
    <<"PK", "PK", "pk">>,
    <<"PK_Orders", "PK_ORDERS", "pk_orders">>,
    <<"PRIMARY", "PRIMARY", "primary">>,
    <<"primary", "PRIMARY", "primary">>,
    <<"Qty", "QTY", "qty">>,
    <<"real", "REAL", "real">>,
    <<"SET", "SET", "set">>,
    <<"set", "SET", "set">>,
    <<"smalldatetime", "SMALLDATETIME", "smalldatetime">>,
    <<"SMALLINT", "SMALLINT", "smallint">>,
    <<"smallint", "SMALLINT", "smallint">>,
    <<"SmallMoney", "SMALLMONEY", "smallmoney">>,
    <<"smallmoney", "SMALLMONEY", "smallmoney">>,
    <<"sql_variant", "SQL_VARIANT", "sql_variant">>,
    <<"STATISTICS_NORECOMPUTE", "STATISTICS_NORECOMPUTE", "statistics_norecompute">>,
    <<"STRING", "STRING", "string">>,
    <<"TABLE", "TABLE", "table">>,
    <<"table", "TABLE", "table">>,
    <<"text", "TEXT", "text">>,
    <<"time", "TIME", "time">>,
    <<"TIMESTAMP", "TIMESTAMP", "timestamp">>,
    <<"timestamp", "TIMESTAMP", "timestamp">>,
    <<"TINYINT", "TINYINT", "tinyint">>,
    <<"tinyint", "TINYINT", "tinyint">>,
    <<"UNIQUE", "UNIQUE", "unique">>,
    <<"uniqueidentifier", "UNIQUEIDENTIFIER", "uniqueidentifier">>,
    <<"UQ", "UQ", "uq">>,
    <<"USE", "USE", "use">>,
    <<"use", "USE", "use">>,
    <<"USING", "USING", "using">>,
    <<"varbinary", "VARBINARY", "varbinary">>,
    <<"varchar", "VARCHAR", "varchar">>,
    <<"WITH", "WITH", "with">>,
    <<"X", "X", "x">>,
    <<"x", "X", "x">>,
    <<"Xml", "XML", "xml">>,
    <<"xml", "XML", "xml">> }
UpperAtom(a) == IF \E t \in CaseTable : t[1] = a
                THEN (CHOOSE t \in CaseTable : t[1] = a)[2] ELSE a
LowerAtom(a) == IF \E t \in CaseTable : t[1] = a
                THEN (CHOOSE t \in CaseTable : t[1] = a)[3] ELSE a
Upper(s) == [i \in 1..Len(s) |-> UpperAtom(s[i])]
Lower(s) == [i \in 1..Len(s) |-> LowerAtom(s[i])]

\* str.strip(): leading and trailing whitespace removed.
RECURSIVE LStrip(_)
LStrip(s) == IF s # <<>> /\ IsWS(Head(s)) THEN LStrip(Tail(s)) ELSE s
RECURSIVE RStrip(_)
RStrip(s) == IF s # <<>> /\ IsWS(s[Len(s)]) THEN RStrip(SubSeq(s, 1, Len(s) - 1)) ELSE s
Strip(s) == RStrip(LStrip(s))

----------------------------------------------------------------------------
\* _smart_split (lines 179-199): one pass over the characters.  `cuts` is a
\* history value: the 1-based positions of the commas the loop split at.

\* The position of the first atom of the set S at or after i, or 0.
NextOf(t, i, S) ==
  IF \E j \in i..Len(t) : t[j] \in S THEN Min({j \in i..Len(t) : t[j] \in S}) ELSE 0

RECURSIVE SmartSplitScan(_, _, _, _, _, _)
RECURSIVE SmartSplitStep(_, _, _, _, _, _)
\* The loop from position i on.  The characters before the next "(", ")"
\* or "," take the last branch (current.append(char)) one after the other:
\* they are appended in one step, up to j, the position of that character
\* (0: the text has no more of them).
SmartSplitScan(t, i, ps, current, paren_depth, cuts) ==
  SmartSplitStep(t, NextOf(t, i, {"(", ")", ","}), ps,
                 current \o SubSeq(t, i, (IF NextOf(t, i, {"(", ")", ","}) = 0
                                          THEN Len(t)
                                          ELSE NextOf(t, i, {"(", ")", ","}) - 1)),
                 paren_depth, cuts)
SmartSplitStep(t, j, ps, current, paren_depth, cuts) ==
  IF j = 0
  THEN [parts |-> IF current # <<>> THEN Append(ps, Strip(current)) ELSE ps,
        cuts  |-> cuts]
  ELSE LET char == t[j] IN
       IF char = "("
       THEN SmartSplitScan(t, j + 1, ps, Append(current, char), paren_depth + 1, cuts)
       ELSE IF char = ")"
       THEN SmartSplitScan(t, j + 1, ps, Append(current, char), paren_depth - 1, cuts)
       ELSE IF char = "," /\ paren_depth = 0
       THEN SmartSplitScan(t, j + 1, Append(ps, Strip(current)), <<>>, paren_depth,
                           Append(cuts, j))
       ELSE SmartSplitScan(t, j + 1, ps, Append(current, char), paren_depth, cuts)

SmartSplitRun(t) == SmartSplitScan(t, 1, <<>>, <<>>, 0, <<>>)
SmartSplit(t) == SmartSplitRun(t).parts

----------------------------------------------------------------------------
\* convert_data_type (lines 201-223) and the type table (lines 18-61).

\* self.type_mapping, as <<key, value>> pairs.
type_mapping ==
  {
    <<<<"int">>, <<"INT">>>>,
    <<<<"bigint">>, <<"BIGINT">>>>,
    <<<<"smallint">>, <<"SMALLINT">>>>,
    <<<<"tinyint">>, <<"TINYINT">>>>,
    <<<<"bit">>, <<"BOOLEAN">>>>,
    <<<<"decimal">>, <<"DECIMAL">>>>,
    <<<<"numeric">>, <<"DECIMAL">>>>,
    <<<<"float">>, <<"DOUBLE">>>>,
    <<<<"real">>, <<"FLOAT">>>>,
    <<<<"money">>, <<"DECIMAL", "(", "1", "9", ",", "4", ")">>>>,
    <<<<"smallmoney">>, <<"DECIMAL", "(", "1", "0", ",", "4", ")">>>>,
    <<<<"char">>, <<"STRING">>>>,
    <<<<"varchar">>, <<"STRING">>>>,
    <<<<"text">>, <<"STRING">>>>,
    <<<<"nchar">>, <<"STRING">>>>,
    <<<<"nvarchar">>, <<"STRING">>>>,
    <<<<"ntext">>, <<"STRING">>>>,
    <<<<"date">>, <<"DATE">>>>,
    <<<<"datetime">>, <<"TIMESTAMP">>>>,
    <<<<"datetime", "2">>, <<"TIMESTAMP">>>>,
    <<<<"datetimeoffset">>, <<"TIMESTAMP">>>>,
    <<<<"smalldatetime">>, <<"TIMESTAMP">>>>,
    <<<<"time">>, <<"STRING">>>>,
    <<<<"timestamp">>, <<"BINARY">>>>,
    <<<<"binary">>, <<"BINARY">>>>,
    <<<<"varbinary">>, <<"BINARY">>>>,
    <<<<"image">>, <<"BINARY">>>>,
    <<<<"uniqueidentifier">>, <<"STRING">>>>,
    <<<<"xml">>, <<"STRING">>>>,
    <<<<"sql_variant">>, <<"STRING">>>>,
    <<<<"geography">>, <<"STRING">>>>,
    <<<<"geometry">>, <<"STRING">>>>,
    <<<<"hierarchyid">>, <<"STRING">>>> }

TypeMappingGet(k, default) ==
  IF \E e \in type_mapping : e[1] = k
  THEN (CHOOSE e \in type_mapping : e[1] = k)[2]
  ELSE default

\* Truth value of an Optional[str]: None and the empty string are false.
Truthy(p) == p # None /\ p # <<>>

DigitValue(d) ==
  CASE d = "0" -> 0 [] d = "1" -> 1 [] d = "2" -> 2 [] d = "3" -> 3
    [] d = "4" -> 4 [] d = "5" -> 5 [] d = "6" -> 6 [] d = "7" -> 7
    [] d = "8" -> 8 [] d = "9" -> 9

RECURSIVE DigitsValue(_, _)
\* The base-10 value of a digit string with separators "_", from the left.
DigitsValue(s, acc) ==
  IF s = <<>> THEN acc
  ELSE IF Head(s) = "_" THEN DigitsValue(Tail(s), acc)
  ELSE DigitsValue(Tail(s), 10 * acc + DigitValue(Head(s)))

\* Python's int(str): surrounding whitespace is ignored, then an optional
\* sign, then digits, with single underscores allowed between digits.
IntLiteralOk(s) ==
  /\ s # <<>>
  /\ \A i \in 1..Len(s) : s[i] \in Digits \cup {"_"}
  /\ s[1] \in Digits /\ s[Len(s)] \in Digits
  /\ \A i \in 1..Len(s) - 1 : ~(s[i] = "_" /\ s[i + 1] = "_")

\* int(p) returns a value (PyIntOk) or raises ValueError (~PyIntOk).
PyIntBody(p) ==
  LET s == Strip(p) IN IF s # <<>> /\ s[1] \in {"+", "-"} THEN Tail(s) ELSE s
PyIntOk(p) == IntLiteralOk(PyIntBody(p))
PyIntValue(p) ==
  LET s == Strip(p) IN
  IF s[1] = "-" THEN 0 - DigitsValue(PyIntBody(p), 0) ELSE DigitsValue(PyIntBody(p), 0)

FloatPrecisionLimit == 25

\* convert_data_type with line 215 reading `n <= 25`.
ConvertDataTypeInclusive(type, p) ==
  LET base_type == Lower(type) IN
  IF base_type \in {<<"decimal">>, <<"numeric">>} /\ Truthy(p)
  THEN <<"DECIMAL", "(">> \o p \o <<")">>
  ELSE IF base_type \in {<<"char">>, <<"varchar">>, <<"nchar">>, <<"nvarchar">>}
  THEN <<"STRING">>
  ELSE IF base_type = <<"float">> /\ Truthy(p)
  THEN IF ~PyIntOk(p) THEN <<"DOUBLE">>
       ELSE IF PyIntValue(p) <= FloatPrecisionLimit THEN <<"FLOAT">> ELSE <<"DOUBLE">>
  ELSE TypeMappingGet(base_type, <<"STRING">>)

\* convert_data_type with line 203 reading `base_type = sql_server_type`.
ConvertDataTypeCaseSensitive(type, p) ==
  LET base_type == type IN
  IF base_type \in {<<"decimal">>, <<"numeric">>} /\ Truthy(p)
  THEN <<"DECIMAL", "(">> \o p \o <<")">>
  ELSE IF base_type \in {<<"char">>, <<"varchar">>, <<"nchar">>, <<"nvarchar">>}
  THEN <<"STRING">>
  ELSE IF base_type = <<"float">> /\ Truthy(p)
  THEN IF ~PyIntOk(p) THEN <<"DOUBLE">>
       ELSE IF PyIntValue(p) < FloatPrecisionLimit THEN <<"FLOAT">> ELSE <<"DOUBLE">>
  ELSE TypeMappingGet(base_type, <<"STRING">>)

\* Lines 201-223.
ConvertDataType(type, p) ==
  LET base_type == Lower(type) IN
  IF base_type \in {<<"decimal">>, <<"numeric">>} /\ Truthy(p)
  THEN <<"DECIMAL", "(">> \o p \o <<")">>
  ELSE IF base_type \in {<<"char">>, <<"varchar">>, <<"nchar">>, <<"nvarchar">>}
  THEN <<"STRING">>
  ELSE IF base_type = <<"float">> /\ Truthy(p)
  THEN IF ~PyIntOk(p) THEN <<"DOUBLE">>            \* except: return 'DOUBLE'
       ELSE IF PyIntValue(p) < FloatPrecisionLimit THEN <<"FLOAT">> ELSE <<"DOUBLE">>
  ELSE TypeMappingGet(base_type, <<"STRING">>)

----------------------------------------------------------------------------
\* Regular-expression primitives on atom sequences.  Positions are 1-based;
\* a position i means "the next atom to read is t[i]".

At(t, i, a) == i >= 1 /\ i <= Len(t) /\ t[i] = a
AtUpper(t, i, a) == i >= 1 /\ i <= Len(t) /\ UpperAtom(t[i]) = a
\* x? (greedy) where what follows cannot match x.
SkipOpt(t, i, a) == IF At(t, i, a) THEN i + 1 ELSE i
\* \s* (greedy) where what follows cannot match whitespace.
SkipWS(t, i) == Min({j \in i..Len(t) + 1 : j = Len(t) + 1 \/ ~IsWS(t[j])})
\* Position of the first atom a at or after i, or 0.
Find(t, i, a) ==
  IF \E j \in i..Len(t) : t[j] = a THEN Min({j \in i..Len(t) : t[j] = a}) ELSE 0
\* Python's `sub in s`.
Contains(s, sub) ==
  \E i \in 1..Len(s) - Len(sub) + 1 : SubSeq(s, i, i + Len(sub) - 1) = sub

\* The ends e (exclusive) of a non-empty match of [^\[\]]+ starting at s.
NameEnds(t, s) ==
  {e \in s + 1..Len(t) + 1 : \A k \in s..e - 1 : t[k] \notin {"[", "]"}}

\* \]?\s*\( from e: the position after the "(", or 0.
AfterNameTail(t, e) ==
  LET d == SkipWS(t, SkipOpt(t, e, "]")) IN IF At(t, d, "(") THEN d + 1 ELSE 0

\* Line 89: \[?([^\[\]]+)\]?\.\[?([^\[\]]+)\]?\s*\(  matched at the start.
SchemaNameE2s(t, e1) ==
  LET a == SkipOpt(t, e1, "]") IN
  IF ~At(t, a, ".") THEN {}
  ELSE {e2 \in NameEnds(t, SkipOpt(t, a + 1, "[")) : AfterNameTail(t, e2) # 0}

SchemaNameMatch(t) ==
  LET s1 == SkipOpt(t, 1, "[")
      e1s == {e1 \in NameEnds(t, s1) : SchemaNameE2s(t, e1) # {}}
  IN  IF e1s = {} THEN NoneRec
      ELSE LET e1 == Max(e1s)
               s2 == SkipOpt(t, SkipOpt(t, e1, "]") + 1, "[")
               e2 == Max(SchemaNameE2s(t, e1))
           IN  [schema |-> SubSeq(t, s1, e1 - 1), name |-> SubSeq(t, s2, e2 - 1)]

\* Line 92: \[?([^\[\]]+)\]?\s*\(  matched at the start.
BareNameMatch(t) ==
  LET s1 == SkipOpt(t, 1, "[")
      e1s == {e1 \in NameEnds(t, s1) : AfterNameTail(t, e1) # 0}
  IN  IF e1s = {} THEN NoneRec
      ELSE [schema |-> None, name |-> SubSeq(t, s1, Max(e1s) - 1)]

\* Lines 90-99: the match with a schema if there is one, else the bare one.
OrBareName(table_name_match, t) ==
  IF table_name_match # NoneRec THEN table_name_match ELSE BareNameMatch(t)

\* Lines 89-99.
TableNameMatch(t) == OrBareName(SchemaNameMatch(t), t)

\* Lines 103-116: the paren-depth loop; start_idx and end_idx are Python's
\* 0-based indices, -1 when not set.
RECURSIVE ParenScan(_, _, _, _)
RECURSIVE ParenStep(_, _, _, _)
\* The loop from position i on; the characters that are no parenthesis
\* change nothing, so the loop is taken up at j, the next parenthesis.
ParenScan(t, i, paren_depth, start_idx) ==
  ParenStep(t, NextOf(t, i, {"(", ")"}), paren_depth, start_idx)
ParenStep(t, j, paren_depth, start_idx) ==
  IF j = 0 THEN [start_idx |-> start_idx, end_idx |-> -1]
  ELSE IF t[j] = "("
  THEN ParenScan(t, j + 1, paren_depth + 1,
                 IF paren_depth = 0 /\ start_idx = -1 THEN j ELSE start_idx)
  ELSE IF paren_depth - 1 = 0 /\ start_idx # -1
       THEN [start_idx |-> start_idx, end_idx |-> j - 1]
       ELSE ParenScan(t, j + 1, paren_depth - 1, start_idx)

FindBody(t) == ParenScan(t, 1, 0, -1)

----------------------------------------------------------------------------
\* Lines 125-127: the constraint-removal substitution
\*   ,?\s*CONSTRAINT\s+\[?[^\]]*\]?\s+(PRIMARY KEY|UNIQUE|FOREIGN KEY|CHECK)
\*   .*?(?:WITH\s*\([^)]*\))?.*?(?=,\s*\[|$)        (DOTALL | IGNORECASE)

\* The number of atoms of the keyword alternative matched at k, or 0.
ConstraintKindAt(t, k) ==
  IF AtUpper(t, k, "PRIMARY") /\ At(t, k + 1, " ") /\ AtUpper(t, k + 2, "KEY") THEN 3
  ELSE IF AtUpper(t, k, "UNIQUE") THEN 1
  ELSE IF AtUpper(t, k, "FOREIGN") /\ At(t, k + 1, " ") /\ AtUpper(t, k + 2, "KEY") THEN 3
  ELSE IF AtUpper(t, k, "CHECK") THEN 1
  ELSE 0

\* [^\]]*\]?\s+(KIND) from n0: the keyword positions k that can be reached.
ConstraintKindPositions(t, n0) ==
  {k \in n0..Len(t) :
     /\ ConstraintKindAt(t, k) # 0
     /\ \E e \in n0..k - 1 :
          /\ \A j \in n0..e - 1 : t[j] # "]"
          /\ LET x == SkipOpt(t, e, "]") IN x < k /\ SkipWS(t, x) = k}

\* (?=,\s*\[|$) at p ($ without MULTILINE: the end, or before a final newline).
ConstraintLookahead(t, p) ==
  \/ At(t, p, ",") /\ At(t, SkipWS(t, p + 1), "[")
  \/ p = Len(t) + 1
  \/ p = Len(t) /\ t[p] = "\n"

\* (?:WITH\s*\([^)]*\))? directly at q: the position after it.
ConstraintWithEnd(t, q) ==
  IF ~AtUpper(t, q, "WITH") THEN q
  ELSE LET o == SkipWS(t, q + 1) IN
       IF At(t, o, "(") /\ Find(t, o + 1, ")") # 0 THEN Find(t, o + 1, ")") + 1 ELSE q

\* The position after the match that starts at i, or 0 when none starts at i.
ConstraintMatchEnd(t, i) ==
  LET b == SkipWS(t, SkipOpt(t, i, ","))
      c == b + 1
      wEnd == SkipWS(t, c)
      full == ConstraintKindPositions(t, SkipOpt(t, wEnd, "["))
      k == IF full # {} THEN Max(full)
           ELSE IF wEnd - c >= 2 /\ ConstraintKindAt(t, wEnd) # 0 THEN wEnd
           ELSE 0
  IN  IF ~AtUpper(t, b, "CONSTRAINT") \/ wEnd = c \/ k = 0 THEN 0
      ELSE LET q == ConstraintWithEnd(t, k + ConstraintKindAt(t, k))
           IN  Min({p \in q..Len(t) + 1 : ConstraintLookahead(t, p)})

\* The first position at or after i where the pattern of lines 125-126
\* matches, or 0.
NextConstraint(t, i) ==
  IF \E j \in i..Len(t) : ConstraintMatchEnd(t, j) # 0
  THEN Min({j \in i..Len(t) : ConstraintMatchEnd(t, j) # 0})
  ELSE 0

RECURSIVE RemoveConstraintsFrom(_, _)
RECURSIVE RemoveConstraintsStep(_, _, _)
\* re.sub(pattern, '', t): leftmost matches, left to right, not overlapping;
\* the text between the matches is kept.
RemoveConstraintsFrom(t, i) == RemoveConstraintsStep(t, i, NextConstraint(t, i))
RemoveConstraintsStep(t, i, m) ==
  IF m = 0 THEN SubSeq(t, i, Len(t))
  ELSE SubSeq(t, i, m - 1) \o RemoveConstraintsFrom(t, ConstraintMatchEnd(t, m))

RemoveConstraints(t) == RemoveConstraintsFrom(t, 1)

----------------------------------------------------------------------------
\* _parse_columns (lines 138-177).

SkipKeywords ==
  {"CONSTRAINT", "PRIMARY", "UNIQUE", "FOREIGN", "CHECK", "PAD_INDEX",
   "STATISTICS_NORECOMPUTE", "IGNORE_DUP_KEY", "ALLOW_ROW_LOCKS", "ALLOW_PAGE_LOCKS"}
OptionNames ==
  {"PAD_INDEX", "STATISTICS_NORECOMPUTE", "IGNORE_DUP_KEY", "ALLOW_ROW_LOCKS",
   "ALLOW_PAGE_LOCKS"}

\* Line 151 (the line is stripped and not empty).
IsConstraintLine(line) == UpperAtom(line[1]) \in SkipKeywords
\* Line 155.
IsOptionLine(line) ==
  "=" \in Range(line) /\ \E i \in 1..Len(line) : UpperAtom(line[i]) \in OptionNames

\* Line 160:
\*   \[?([^\[\]]+)\]?\s+\[?([a-zA-Z_]+)(?:\(([^)]+)\))?\]?\s*(.*)
\* The position of the type for a name that ends at e, or 0.
ColumnTypeStart(line, e) ==
  LET x == SkipOpt(line, e, "]")
      y == SkipWS(line, x)
      z == SkipOpt(line, y, "[")
  IN  IF y > x /\ z <= Len(line) /\ IsWord(line[z]) THEN z ELSE 0

ColumnMatch(line) ==
  LET s1 == SkipOpt(line, 1, "[")
      ends == {e \in NameEnds(line, s1) : ColumnTypeStart(line, e) # 0}
  IN  IF ends = {} THEN NoneRec
      ELSE LET e == Max(ends)
               z == ColumnTypeStart(line, e)
               tEnd == Min({j \in z..Len(line) + 1 : j = Len(line) + 1 \/ ~IsWord(line[j])})
               close == IF At(line, tEnd, "(") THEN Find(line, tEnd + 1, ")") ELSE 0
               hasParams == close > tEnd + 1
               afterType == IF hasParams THEN close + 1 ELSE tEnd
               m == SkipWS(line, SkipOpt(line, afterType, "]"))
               eol == Min({j \in m..Len(line) + 1 : j = Len(line) + 1 \/ line[j] = "\n"})
           IN  [g1 |-> SubSeq(line, s1, e - 1),
                g2 |-> SubSeq(line, z, tEnd - 1),
                g3 |-> IF hasParams THEN SubSeq(line, tEnd + 1, close - 1) ELSE None,
                g4 |-> SubSeq(line, m, eol - 1)]

\* Line 168.
Nullable(col_modifiers) == ~Contains(Upper(col_modifiers), <<"NOT", " ", "NULL">>)

\* Lines 161-175: the columns appended for one match (none when no match).
ColumnOf(column_match) ==
  IF column_match = NoneRec THEN <<>>
  ELSE << [name |-> column_match.g1,
           type |-> Lower(column_match.g2),
           params |-> column_match.g3,
           nullable |-> Nullable(column_match.g4)] >>

\* Lines 146-175: the columns appended for one (stripped) line.
ColumnsOfLine(line) ==
  IF line = <<>> THEN <<>>
  ELSE IF IsConstraintLine(line) THEN <<>>
  ELSE IF IsOptionLine(line) THEN <<>>
  ELSE ColumnOf(ColumnMatch(line))

RECURSIVE ColumnsOfLines(_)
\* Lines 145-177: the loop over the lines.
ColumnsOfLines(column_lines) ==
  IF column_lines = <<>> THEN <<>>
  ELSE ColumnsOfLine(Strip(Head(column_lines))) \o ColumnsOfLines(Tail(column_lines))

ParseColumns(columns_raw) == ColumnsOfLines(SmartSplit(columns_raw))

----------------------------------------------------------------------------
\* _parse_single_table (lines 86-136): None, or the table.

\* _parse_single_table without the `return None` of line 94: group() is
\* then called on None and the AttributeError leaves the function.
TableOfUnguarded(table_name_match, span, table_content) ==
  IF table_name_match = NoneRec THEN Raised
  ELSE IF span.start_idx = -1 \/ span.end_idx = -1 THEN NoneRec
  ELSE [schema |-> table_name_match.schema,
        name |-> table_name_match.name,
        columns |-> ParseColumns(RemoveConstraints(
                      Slice(table_content, span.start_idx, span.end_idx)))]

\* Lines 101-136, once the name has been matched.
TableOf(table_name_match, span, table_content) ==
  IF table_name_match = NoneRec THEN NoneRec
  ELSE IF span.start_idx = -1 \/ span.end_idx = -1 THEN NoneRec
  ELSE [schema |-> table_name_match.schema,
        name |-> table_name_match.name,
        columns |-> ParseColumns(RemoveConstraints(
                      Slice(table_content, span.start_idx, span.end_idx)))]

ParseSingleTable(table_content) ==
  TableOf(TableNameMatch(table_content), FindBody(table_content), table_content)

----------------------------------------------------------------------------
\* parse_sql_server_ddl (lines 65-84).

\* ^ with MULTILINE: the start of the text or just after a newline.
LineStart(t, i) == i = 1 \/ (i > 1 /\ i <= Len(t) + 1 /\ t[i - 1] = "\n")
\* $ with MULTILINE: the end of the text or just before a newline.
LineEnd(t, j) == j = Len(t) + 1 \/ At(t, j, "\n")
\* The end of the line that position i is on.
EndOfLine(t, i) == Min({j \in i..Len(t) + 1 : LineEnd(t, j)})

\* Line 70: ^GO\s*$ at i: the position after the match, or 0.
GoMatchEnd(t, i) ==
  IF ~(LineStart(t, i) /\ AtUpper(t, i, "GO")) THEN 0
  ELSE LET ends == {j \in i + 1..SkipWS(t, i + 1) : LineEnd(t, j)}
       IN  IF ends = {} THEN 0 ELSE Max(ends)

\* Lines 71-72: ^USE\s+.*$ and ^SET\s+.*$ at i.
StatementMatchEnd(t, i, word) ==
  IF ~(LineStart(t, i) /\ AtUpper(t, i, word)) THEN 0
  ELSE LET w == SkipWS(t, i + 1) IN IF w = i + 1 THEN 0 ELSE EndOfLine(t, w)

\* Line 73: /\*.*?\*/ with DOTALL at i.
CommentMatchEnd(t, i) ==
  IF At(t, i, "/*") /\ Find(t, i + 1, "*/") # 0 THEN Find(t, i + 1, "*/") + 1 ELSE 0

\* The position after the match of pattern number n (the line of the source
\* it stands on) starting at i, or 0.
NoiseMatchEnd(n, t, i) ==
  CASE n = 70 -> GoMatchEnd(t, i)
    [] n = 71 -> StatementMatchEnd(t, i, "USE")
    [] n = 72 -> StatementMatchEnd(t, i, "SET")
    [] n = 73 -> CommentMatchEnd(t, i)

\* The first position at or after i where pattern n matches, or 0.
NextNoise(n, t, i) ==
  IF \E j \in i..Len(t) : NoiseMatchEnd(n, t, j) # 0
  THEN Min({j \in i..Len(t) : NoiseMatchEnd(n, t, j) # 0})
  ELSE 0

RECURSIVE SubEmpty(_, _, _)
RECURSIVE SubEmptyStep(_, _, _, _)
\* re.sub(pattern, '', t) for a pattern that matches no empty string: the
\* text between the matches is kept.
SubEmpty(n, t, i) == SubEmptyStep(n, t, i, NextNoise(n, t, i))
SubEmptyStep(n, t, i, m) ==
  IF m = 0 THEN SubSeq(t, i, Len(t))
  ELSE SubSeq(t, i, m - 1) \o SubEmpty(n, t, NoiseMatchEnd(n, t, m))

\* Lines 70-73.
Preprocess(c) == SubEmpty(73, SubEmpty(72, SubEmpty(71, SubEmpty(70, c, 1), 1), 1), 1)

\* Line 76: CREATE\s+TABLE\s+ (IGNORECASE) at i: the position after, or 0.
CreateTableMatchEnd(t, i) ==
  IF ~AtUpper(t, i, "CREATE") THEN 0
  ELSE LET a == SkipWS(t, i + 1) IN
       IF a = i + 1 \/ ~AtUpper(t, a, "TABLE") THEN 0
       ELSE LET b == SkipWS(t, a + 1) IN IF b = a + 1 THEN 0 ELSE b

\* The first position at or after i where the pattern of line 76 matches,
\* or 0.
NextCreateTable(t, i) ==
  IF \E j \in i..Len(t) : CreateTableMatchEnd(t, j) # 0
  THEN Min({j \in i..Len(t) : CreateTableMatchEnd(t, j) # 0})
  ELSE 0

RECURSIVE ReSplit(_, _)
RECURSIVE ReSplitStep(_, _, _)
\* Line 77: re.split: the pieces of t from i on, between the matches.
ReSplit(t, i) == ReSplitStep(t, i, NextCreateTable(t, i))
ReSplitStep(t, i, m) ==
  IF m = 0 THEN <<SubSeq(t, i, Len(t))>>
  ELSE <<SubSeq(t, i, m - 1)>> \o ReSplit(t, CreateTableMatchEnd(t, m))

\* Lines 80-82 with line 81 reading `if table_info and table_info['columns']`.
OutcomeWithColumns(table_info) ==
  IF table_info = Raised THEN [raised |-> TRUE, tables |-> <<>>]
  ELSE IF table_info # NoneRec /\ table_info.columns # <<>>
  THEN [raised |-> FALSE, tables |-> <<table_info>>]
  ELSE [raised |-> FALSE, tables |-> <<>>]

\* Lines 80-82 for one fragment: the tables appended, and whether the call
\* raised.
Outcome(table_info) ==
  IF table_info = Raised THEN [raised |-> TRUE, tables |-> <<>>]
  ELSE IF table_info # NoneRec THEN [raised |-> FALSE, tables |-> <<table_info>>]
  ELSE [raised |-> FALSE, tables |-> <<>>]

\* An exception leaves the loop: what later iterations would do is dropped.
Then(first, rest) ==
  IF first.raised THEN first
  ELSE [raised |-> rest.raised, tables |-> first.tables \o rest.tables]

RECURSIVE ParseTables(_)
\* Lines 79-82: the loop over the fragments.
ParseTables(tables_raw) ==
  IF tables_raw = <<>> THEN [raised |-> FALSE, tables |-> <<>>]
  ELSE Then(Outcome(ParseSingleTable(Head(tables_raw))), ParseTables(Tail(tables_raw)))

\* Line 77 and tables_raw[1:].
TablesRaw(c) == Tail(ReSplit(Preprocess(c), 1))

ParseSqlServerDdl(c) == ParseTables(TablesRaw(c))

----------------------------------------------------------------------------
\* generate_databricks_ddl (lines 225-248).

ColumnDef(col) ==
  <<" ", " ">> \o col.name \o <<" ">> \o ConvertDataType(col.type, col.params)
    \o (IF col.nullable THEN <<>> ELSE <<" ", "NOT", " ", "NULL">>)

\* Lines 238-244: the column section, ',\n'.join(column_defs).
ColumnSection(table) ==
  Join(<<",", "\n">>, [i \in 1..Len(table.columns) |-> ColumnDef(table.columns[i])])

FullTableName(table, use_catalog) ==
  IF use_catalog /\ Truthy(table.schema)
  THEN table.schema \o <<".">> \o table.name
  ELSE table.name

GenerateDatabricksDdl(table, use_catalog) ==
  Join(<<"\n">>,
       << <<"CREATE", " ", "TABLE", " ", "IF", " ", "NOT", " ", "EXISTS", " ">>
            \o FullTableName(table, use_catalog) \o <<" ", "(">>,
          ColumnSection(table),
          <<")">>,
          <<"USING", " ", "DELTA", ";">> >>)

----------------------------------------------------------------------------
\* The documents the converter is run on.  A document is written from a
\* structure (what its author means), so that what the parser recovers can
\* be compared with what was written.

MaxItems == 2          \* items (columns and constraint clauses) per table
MaxTables == 2         \* CREATE TABLE statements per document

ColumnNames == <<"Id", "Amount", "Name", "Qty">>
TableNames == <<"Orders", "Items", "Parts">>

\* A column definition: identifier, base type, optional parameters, modifiers.
Col(n, ndelim, type, tdelim, ps, notnull, mods) ==
  [kind |-> "col", name |-> <<n>>, ndelim |-> ndelim, type |-> type,
   tdelim |-> tdelim, params |-> ps, notnull |-> notnull, mods |-> mods]

ColumnPool(n) ==
  { Col(n, "bracket", <<"int">>, "bare", None, TRUE, <<"NOT", " ", "NULL">>),
    Col(n, "bracket", <<"decimal">>, "bare", <<"1", "0", ",", "2">>, FALSE, <<"NULL">>),
    Col(n, "bare", <<"int">>, "bare", None, TRUE, <<"NOT", " ", "NULL">>),
    Col(n, "bare", <<"decimal">>, "bare", <<"1", "0", ",", "2">>, FALSE, <<>>),
    Col(n, "bracket", <<"int">>, "bracket", None, FALSE, <<"NULL">>),
    Col(n, "bracket", <<"decimal">>, "bracket", <<"1", "0", ",", "2">>, TRUE,
        <<"NOT", " ", "NULL">>),
    Col(n, "bracket", <<"int">>, "bare", None, TRUE,
        <<"IDENTITY", "(", "1", ",", "1", ")", "\n", "NOT", " ", "NULL">>),
    Col(n, "bracket", <<"INT">>, "bare", None, FALSE, <<>>) }

\* A constraint clause: CONSTRAINT name kind (key columns) [WITH (...)].
Con(cname, cdelim, ckind, keys, kdelim, with) ==
  [kind |-> "constraint", cname |-> <<cname>>, cdelim |-> cdelim, ckind |-> ckind,
   keys |-> keys, kdelim |-> kdelim, with |-> with]

ConstraintPool ==
  { Con("PK_Orders", "bare", <<"PRIMARY", " ", "KEY">>, <<"Id">>, "bare", FALSE),
    Con("PK", "bracket", <<"PRIMARY", " ", "KEY">>, <<"Id", "Amount">>, "bracket", FALSE),
    Con("UQ", "bracket", <<"UNIQUE">>, <<"Id">>, "bracket", TRUE),
    Con("PK", "bare", <<"PRIMARY", " ", "KEY">>, <<"Id", "Amount">>, "bare", FALSE) }

Delimited(name, delim) ==
  CASE delim = "bracket" -> <<"[">> \o name \o <<"]">>
    [] delim = "quote" -> <<"\"">> \o name \o <<"\"">>
    [] delim = "broken" -> <<"[", "[">> \o name \o <<"]">>
    [] OTHER -> name

ColumnText(c) ==
  Delimited(c.name, c.ndelim) \o <<" ">> \o Delimited(c.type, c.tdelim)
    \o (IF c.params = None THEN <<>> ELSE <<"(">> \o c.params \o <<")">>)
    \o (IF c.mods = <<>> THEN <<>> ELSE <<" ">> \o c.mods)

ConstraintText(c) ==
  <<"CONSTRAINT", " ">> \o Delimited(c.cname, c.cdelim) \o <<" ">> \o c.ckind
    \o <<" ", "(">>
    \o Join(<<",", " ">>, [i \in 1..Len(c.keys) |-> Delimited(<<c.keys[i]>>, c.kdelim)])
    \o <<")">>
    \o (IF c.with THEN <<" ", "WITH", " ", "(", "PAD_INDEX", " ", "=", " ", "OFF", ")">>
        ELSE <<>>)

ItemText(it) == IF it.kind = "col" THEN ColumnText(it) ELSE ConstraintText(it)

\* The items that may stand at position i of a column list.
ItemPool(i) == ColumnPool(ColumnNames[i]) \cup ConstraintPool

RECURSIVE ItemLists(_)
\* The column lists of exactly n items.
ItemLists(n) ==
  IF n = 0 THEN {<<>>}
  ELSE {Append(l, it) : l \in ItemLists(n - 1), it \in ItemPool(n)}

Bodies == UNION {ItemLists(n) : n \in 0..MaxItems}

\* The header of a CREATE TABLE statement: [schema.]table, then the gap
\* before the opening parenthesis.
Header(schema, name, delim, gap) ==
  [schema |-> schema, name |-> <<name>>, delim |-> delim, gap |-> gap]

HeaderText(h) ==
  (IF h.schema = None THEN <<>> ELSE Delimited(h.schema, h.delim) \o <<".">>)
    \o Delimited(h.name, h.delim) \o h.gap

Headers(name) ==
  {Header(sc, name, d, g) : sc \in {None, <<"dbo">>}, d \in {"bare", "bracket", "quote"},
                            g \in {<<>>, <<" ">>}}

\* One CREATE TABLE statement; closed = FALSE leaves out the closing
\* parenthesis of the column list.
TableSrc(h, items, closed) == [header |-> h, items |-> items, closed |-> closed]

\* The text after "CREATE TABLE ", up to the next statement.
FragmentText(t) ==
  HeaderText(t.header) \o <<"(", " ">>
    \o Join(<<",", " ">>, [i \in 1..Len(t.items) |-> ItemText(t.items[i])])
    \o (IF t.closed THEN <<" ", ")">> ELSE <<>>) \o <<"\n">>

StatementText(t) == <<"CREATE", " ", "TABLE", " ">> \o FragmentText(t)

\* A document: a preamble, then the statements.
DocText(d) ==
  d.pre \o Flatten([i \in 1..Len(d.tabs) |-> StatementText(d.tabs[i])])

Preambles ==
  { <<>>,
    <<"USE", " ", "[", "dbo", "]", "\n", "GO", "\n">>,
    <<"SET", " ", "ANSI_NULLS", " ", "ON", "\n", "GO", "\n">>,
    <<"/*", " ", "Orders", "\n", "*/", "\n">> }

PlainHeader(name) == Header(<<"dbo">>, name, "bracket", <<>>)

\* The example of the specification: dbo.Orders ( [Id] int NOT NULL,
\* [Amount] decimal(10,2) NULL, CONSTRAINT PK_Orders PRIMARY KEY (Id) ).
ExampleTable ==
  TableSrc(Header(<<"dbo">>, "Orders", "bare", <<" ">>),
           << Col("Id", "bracket", <<"int">>, "bare", None, TRUE, <<"NOT", " ", "NULL">>),
              Col("Amount", "bracket", <<"decimal">>, "bare", <<"1", "0", ",", "2">>, FALSE,
                  <<"NULL">>),
              Con("PK_Orders", "bare", <<"PRIMARY", " ", "KEY">>, <<"Id">>, "bare", FALSE) >>,
           TRUE)

SmallBodies == {b \in Bodies : Len(b) <= 1}

\* Single-table documents: every column list under one header, and every
\* header over the short column lists.
SingleTables ==
  {TableSrc(PlainHeader(TableNames[1]), b, c) : b \in Bodies, c \in BOOLEAN}
    \cup {TableSrc(h, b, TRUE) : h \in Headers(TableNames[1]), b \in SmallBodies}
    \cup {ExampleTable}

\* The statements of the documents with several tables.
ShortTables(i) ==
  {TableSrc(h, b, c) :
     h \in {PlainHeader(TableNames[i]), Header(None, TableNames[i], "bare", <<" ">>),
            Header(None, TableNames[i], "broken", <<>>)},
     b \in {<<it>> : it \in {Col("Id", "bracket", <<"int">>, "bare", None, TRUE,
                                  <<"NOT", " ", "NULL">>)}},
     c \in BOOLEAN}

RECURSIVE TableLists(_)
TableLists(n) ==
  IF n = 0 THEN {<<>>}
  ELSE {Append(l, t) : l \in TableLists(n - 1), t \in ShortTables(n)}

Sources ==
  {[pre |-> <<>>, tabs |-> <<t>>] : t \in SingleTables}
    \cup {[pre |-> p, tabs |-> <<ExampleTable>>] : p \in Preambles}
    \cup {[pre |-> <<>>, tabs |-> l] : l \in UNION {TableLists(n) : n \in 0..MaxTables}}

----------------------------------------------------------------------------
\* The arguments convert_data_type is called with.

MaxParamLen == 3       \* atoms of the params of a float

ParamAtoms == {"0", "1", "2", "3", "4", "5", "-", "+", " ", "_", "x", ","}
FloatParams == {None} \cup SeqsUpTo(ParamAtoms, MaxParamLen)
OtherParams ==
  {None} \cup SeqsUpTo(ParamAtoms, 1)
    \cup {<<"1", "0", ",", "2">>, <<"5", "0">>, <<"max">>, <<"1", "9", ",", "4">>}

FloatNames == {<<"float">>, <<"FLOAT">>, <<"Float">>}
OtherNames ==
  ({e[1] : e \in type_mapping} \ {<<"float">>})
    \cup {<<"INT">>, <<"Decimal">>, <<"NUMERIC">>, <<"NVarChar">>, <<"MONEY">>,
          <<"SmallMoney">>, <<"NTEXT">>, <<"DateTime", "2">>, <<"Xml">>}
    \cup {<<"foo">>, <<"floats">>, <<"double">>, <<"STRING">>, <<"int", "4">>}

----------------------------------------------------------------------------
\* The texts _smart_split is called with.

MaxSplitLen == 5
SplitAtoms == {"a", ",", "(", ")", " "}
SplitTexts == SeqsUpTo(SplitAtoms, MaxSplitLen)

----------------------------------------------------------------------------
\* The documents written line by line, for the preprocessing of lines
\* 70-73.

MaxLines == 3

LinePool ==
  { <<"GO">>,
    <<"go", " ">>,
    <<"USE", " ", "[", "dbo", "]">>,
    <<"SET", " ", "ANSI_NULLS", " ", "ON">>,
    <<"USE">>,
    <<"CREATE", " ", "TABLE", " ", "[", "Orders", "]", "(", " ", "[", "Id", "]", " ",
      "int", " ", ")">>,
    <<"[", "Id", "]", " ", "int">>,
    <<"/*", " ", "x", " ", "*/">>,
    <<"/*", " ", "x">>,
    <<"x", " ", "*/">>,
    <<"SET", " ", "x", " ", "*/">> }

LineLists == SeqsUpTo(LinePool, MaxLines)

\* The text of the lines, each ended by a newline.
LinesText(ls) == Flatten([i \in 1..Len(ls) |-> ls[i] \o <<"\n">>])

----------------------------------------------------------------------------
\* proc_converter_v2.py: the stop-reason helpers and the request loop.  A
\* stop reason is a string, written as the sequence of its characters; the
\* prompt and the outputs are sequences of atoms.

\* A key that a JSON object does not have.
Absent == <<"Absent">>

\* str.lower() of one character.
LowerChar(c) ==
  CASE c = "A" -> "a" [] c = "B" -> "b" [] c = "C" -> "c" [] c = "D" -> "d"
    [] c = "E" -> "e" [] c = "F" -> "f" [] c = "G" -> "g" [] c = "H" -> "h"
    [] c = "I" -> "i" [] c = "J" -> "j" [] c = "K" -> "k" [] c = "L" -> "l"
    [] c = "M" -> "m" [] c = "N" -> "n" [] c = "O" -> "o" [] c = "P" -> "p"
    [] c = "Q" -> "q" [] c = "R" -> "r" [] c = "S" -> "s" [] c = "T" -> "t"
    [] c = "U" -> "u" [] c = "V" -> "v" [] c = "W" -> "w" [] c = "X" -> "x"
    [] c = "Y" -> "y" [] c = "Z" -> "z" [] OTHER -> c
\* str.lower() of a string of characters.
StrLower(s) == [i \in 1..Len(s) |-> LowerChar(s[i])]

\* dict.get(key): None when the key is absent.
Get(value) == IF value = Absent THEN None ELSE value

\* extract_stop_reason (lines 155-167).  resp_json.choices is the list of
\* choices, empty also when the key is absent.
TopLevelStopReason(resp_json) ==
  IF resp_json.stop_reason # Absent THEN resp_json.stop_reason
  ELSE IF resp_json.finish_reason # Absent THEN resp_json.finish_reason
  ELSE IF resp_json.stop # Absent THEN resp_json.stop
  ELSE None
ChoiceStopReason(choices) ==
  IF choices = <<>> THEN None
  ELSE IF Truthy(Get(choices[1].stop_reason)) THEN choices[1].stop_reason
       ELSE Get(choices[1].finish_reason)
ExtractStopReason(resp_json) ==
  IF Truthy(ChoiceStopReason(resp_json.choices))
  THEN ChoiceStopReason(resp_json.choices)
  ELSE TopLevelStopReason(resp_json)

\* Line 174: the substrings looked for.
TokenLimitWords == { <<"m", "a", "x">>, <<"l", "e", "n", "g", "t", "h">>,
                     <<"l", "i", "m", "i", "t">>, <<"t", "o", "k", "e", "n">> }
\* is_token_limit (lines 170-174).
IsTokenLimit(stop_reason) ==
  IF ~Truthy(stop_reason) THEN FALSE
  ELSE \E t \in TokenLimitWords : Contains(StrLower(stop_reason), t)

\* Lines 211-215: the output text of the response.
OutputOf(resp_json) ==
  IF resp_json.choices = <<>> THEN None ELSE Get(resp_json.choices[1].message_content)

\* Line 233: the texts put around the accumulated output.
PartialOutputHeader == "\n\nPartial output so far:\n"
ContinueInstruction ==
  "\n\nContinue the output from where it stopped and dont add any extra comments ."
\* Line 233 with the user prompt left out of the continuation prompt.
ContinuationPromptWithoutInput(prompt, acc) ==
  <<PartialOutputHeader>> \o acc \o <<ContinueInstruction>>
\* Line 233.
ContinuationPrompt(prompt, acc) ==
  prompt \o <<PartialOutputHeader>> \o acc \o <<ContinueInstruction>>

\* Lines 220-238 once the output has been added to accumulated: where the
\* loop goes on and with which prompt.
AfterOutput(prompt, cur, acc, stop_reason) ==
  IF Truthy(stop_reason) /\ ~IsTokenLimit(stop_reason)
  THEN [pc |-> "llm_returned", accumulated |-> acc, current_prompt |-> cur,
        final_output |-> [returned |-> acc]]
  ELSE IF Truthy(stop_reason) /\ IsTokenLimit(stop_reason)
  THEN [pc |-> "llm_loop", accumulated |-> acc,
        current_prompt |-> ContinuationPrompt(prompt, acc), final_output |-> NoneRec]
  ELSE [pc |-> "llm_returned", accumulated |-> acc, current_prompt |-> cur,
        final_output |-> [returned |-> acc]]

\* Lines 199-238: one iteration of the loop, given the response.
Iteration(prompt, cur, acc, status_code, output, stop_reason) ==
  IF status_code # 200 \/ ~Truthy(output)
  THEN [pc |-> "llm_raised", accumulated |-> acc, current_prompt |-> cur,
        final_output |-> [raised |-> "RuntimeError"]]
  ELSE AfterOutput(prompt, cur, acc \o output, stop_reason)

\* The endpoint.  A response has no choices, or one choice and its stop
\* reason in one place or in none: in the first choice as stop_reason or finish_reason, or at the top
\* level as stop_reason, finish_reason or stop.
ReasonPlaces == {"choice.stop_reason", "choice.finish_reason",
                 "stop_reason", "finish_reason", "stop"}
At1(place, here, reason) == IF place = here THEN reason ELSE Absent
ResponseJson(message_content, place, reason) ==
  [choices |-> << [message_content |-> message_content,
                   stop_reason |-> At1(place, "choice.stop_reason", reason),
                   finish_reason |-> At1(place, "choice.finish_reason", reason)] >>,
   stop_reason |-> At1(place, "stop_reason", reason),
   finish_reason |-> At1(place, "finish_reason", reason),
   stop |-> At1(place, "stop", reason)]

\* The stop reasons the endpoint reports when the output was cut at the
\* token limit, and those it reports otherwise (the empty string and an
\* absent key among them).
LimitStops == { <<"l", "e", "n", "g", "t", "h">>,
                <<"M", "A", "X", "_", "T", "O", "K", "E", "N", "S">> }
NormalStops == { <<"s", "t", "o", "p">>, <<>>, Absent }
\* The endpoint cuts the output at most MaxLimitStops times in one call.
MaxLimitStops == 2

\* The responses with a stop reason of `reasons`: status 200 or 500, the
\* message content None, empty or a text.
Responses(reasons) ==
  { [status_code |-> sc, data |-> ResponseJson(c, place, r), reason |-> r] :
      sc \in {200, 500}, c \in {None, <<>>, <<"a">>, <<"b">>},
      place \in ReasonPlaces, r \in reasons }
  \cup { [status_code |-> sc, reason |-> Absent,
           data |-> [choices |-> <<>>, stop_reason |-> Absent,
                     finish_reason |-> Absent, stop |-> Absent]] : sc \in {200, 500} }
\* The responses the endpoint may give after the rounds rs.
ResponsesAfter(rs) ==
  Responses(IF Cardinality({i \in 1..Len(rs) : rs[i].reason \in LimitStops}) < MaxLimitStops
            THEN LimitStops \cup NormalStops ELSE NormalStops)

----------------------------------------------------------------------------
\* sp_chunk.py: split_into_chunks and process_and_write.  The text is the
\* sequence of its characters.

MaxTextLen == 4
MaxChunkSize == 3
ChunkTexts == SeqsUpTo({"a", "b"}, MaxTextLen)

\* Line 64: the first line of the output file.
OutputHeader == "-- Converted Databricks SQL\n\n"

RECURSIVE Decimal(_)
\* str(n) for n >= 0, as "{}".format(n) writes it.
Decimal(n) ==
  IF n >= 10 THEN Decimal(n \div 10) \o Decimal(n % 10)
  ELSE << CASE n = 0 -> "0" [] n = 1 -> "1" [] n = 2 -> "2" [] n = 3 -> "3"
            [] n = 4 -> "4" [] n = 5 -> "5" [] n = 6 -> "6" [] n = 7 -> "7"
            [] n = 8 -> "8" [] n = 9 -> "9" >>
\* Line 75 with the marker of every chunk numbered idx rather than idx+1.
EndOfChunkFromZero(i) == <<"\n\n-- END OF CHUNK ">> \o Decimal(i) \o <<"\n\n">>
\* Line 75: "\n\n-- END OF CHUNK {}\n\n".format(idx+1), i the value of idx.
EndOfChunk(i) == <<"\n\n-- END OF CHUNK ">> \o Decimal(i + 1) \o <<"\n\n">>

\* call_llm (lines 40-59): what the endpoint may answer for a chunk.
CallLlmResults(chunk) == { <<"x">> \o chunk, <<"y">>, <<>> }

----------------------------------------------------------------------------
\* The state machine: a converter object on which one call is made.

\* Fragments for _parse_single_table: a name atom and parentheses in any
\* order.
MaxFragmentLen == 6
FragmentAtoms == {"T", "(", ")"}
Fragments == SeqsUpTo(FragmentAtoms, MaxFragmentLen)


Init ==
  /\ pc = "idle"
  /\ content = <<>> /\ preprocessed = <<>> /\ src = NoneRec /\ tables = <<>> /\ ddl = NoneRec
  /\ text = <<>> /\ parts = NoneRec
  /\ sql_server_type = <<>> /\ params = None /\ databricks_type = <<>>
  /\ raised = FALSE /\ reparsed = <<>>
  /\ table_fragment = <<>> /\ body_span = NoneRec /\ table_result = NoneRec
  /\ user_prompt = <<>> /\ accumulated = <<>> /\ current_prompt = <<>> /\ rounds = <<>>
  /\ llm_raw_response = NoneRec /\ final_output = NoneRec
  /\ sql_text = <<>> /\ chunk_size = 1 /\ chunks = <<>> /\ start = 0 /\ idx = 0
  /\ converted = <<>> /\ output_file = <<>>

\* tables = converter.parse_sql_server_ddl(content)
Returned(result) == tables' = result.tables /\ raised' = result.raised

ParseCall ==
  /\ pc = "idle"
  /\ \E d \in Sources :
       /\ src' = d
       /\ content' = DocText(d)
       /\ preprocessed' = Preprocess(DocText(d))
       /\ Returned(ParseSqlServerDdl(DocText(d)))
  /\ pc' = "parsed"
  /\ UNCHANGED <<ddl, text, parts, sql_server_type, params, databricks_type, reparsed,
               table_fragment, body_span, table_result,
               user_prompt, accumulated, current_prompt, rounds, llm_raw_response, final_output,
               sql_text, chunk_size, chunks, start, idx, converted, output_file>>

\* ddl = converter.generate_databricks_ddl(table, use_catalog) for one of
\* the parsed tables (convert_file, lines 269-270).
GenerateCall ==
  /\ pc = "parsed" /\ ~raised
  /\ \E i \in 1..Len(tables), use_catalog \in BOOLEAN :
       ddl' = [index |-> i, use_catalog |-> use_catalog,
               text |-> GenerateDatabricksDdl(tables[i], use_catalog)]
  /\ pc' = "generated"
  /\ UNCHANGED <<content, preprocessed, src, tables, text, parts, sql_server_type, params,
                 databricks_type, raised, reparsed,
               table_fragment, body_span, table_result,
               user_prompt, accumulated, current_prompt, rounds, llm_raw_response, final_output,
               sql_text, chunk_size, chunks, start, idx, converted, output_file>>

\* The column section of the rendered table is parsed again.
ReparseCall ==
  /\ pc = "generated"
  /\ reparsed' = ParseColumns(ColumnSection(tables[ddl.index]))
  /\ pc' = "reparsed"
  /\ UNCHANGED <<content, preprocessed, src, tables, ddl, text, parts, sql_server_type, params,
                 databricks_type, raised,
               table_fragment, body_span, table_result,
               user_prompt, accumulated, current_prompt, rounds, llm_raw_response, final_output,
               sql_text, chunk_size, chunks, start, idx, converted, output_file>>

Next == ParseCall \/ GenerateCall \/ ReparseCall

Spec == Init /\ [][Next]_vars

\* parts = converter._smart_split(text)
SmartSplitCall ==
  /\ pc = "idle"
  /\ \E t \in SplitTexts : text' = t /\ parts' = SmartSplitRun(t)
  /\ pc' = "split"
  /\ UNCHANGED <<content, preprocessed, src, tables, ddl, sql_server_type, params, databricks_type,
                 raised, reparsed,
               table_fragment, body_span, table_result,
               user_prompt, accumulated, current_prompt, rounds, llm_raw_response, final_output,
               sql_text, chunk_size, chunks, start, idx, converted, output_file>>

NextSplit == SmartSplitCall

SpecSplit == Init /\ [][NextSplit]_vars

\* databricks_type = converter.convert_data_type(sql_server_type, params)
ConvertFloatCall ==
  /\ pc = "idle"
  /\ \E t \in FloatNames, p \in FloatParams :
       /\ sql_server_type' = t /\ params' = p
       /\ databricks_type' = ConvertDataType(t, p)
  /\ pc' = "converted"
  /\ UNCHANGED <<content, preprocessed, src, tables, ddl, text, parts, raised, reparsed,
               table_fragment, body_span, table_result,
               user_prompt, accumulated, current_prompt, rounds, llm_raw_response, final_output,
               sql_text, chunk_size, chunks, start, idx, converted, output_file>>

ConvertOtherCall ==
  /\ pc = "idle"
  /\ \E t \in OtherNames, p \in OtherParams :
       /\ sql_server_type' = t /\ params' = p
       /\ databricks_type' = ConvertDataType(t, p)
  /\ pc' = "converted"
  /\ UNCHANGED <<content, preprocessed, src, tables, ddl, text, parts, raised, reparsed,
               table_fragment, body_span, table_result,
               user_prompt, accumulated, current_prompt, rounds, llm_raw_response, final_output,
               sql_text, chunk_size, chunks, start, idx, converted, output_file>>

NextType == ConvertFloatCall \/ ConvertOtherCall

SpecType == Init /\ [][NextType]_vars

\* tables = converter.parse_sql_server_ddl(content) for a document written
\* line by line.
ParseLinesCall ==
  /\ pc = "idle"
  /\ \E ls \in LineLists :
       /\ src' = [lines |-> ls]
       /\ content' = LinesText(ls)
       /\ preprocessed' = Preprocess(LinesText(ls))
       /\ Returned(ParseSqlServerDdl(LinesText(ls)))
  /\ pc' = "parsed"
  /\ UNCHANGED <<ddl, text, parts, sql_server_type, params, databricks_type, reparsed,
               table_fragment, body_span, table_result,
               user_prompt, accumulated, current_prompt, rounds, llm_raw_response, final_output,
               sql_text, chunk_size, chunks, start, idx, converted, output_file>>

NextLines == ParseLinesCall

SpecLines == Init /\ [][NextLines]_vars

\* table_info = self._parse_single_table(table_content) (line 80); the
\* loop of lines 106-116 is reached when a name has been matched.
ParseSingleTableCall ==
  /\ pc = "idle"
  /\ \E f \in Fragments :
       /\ table_fragment' = f
       /\ body_span' = IF TableNameMatch(f) = NoneRec THEN NoneRec ELSE FindBody(f)
       /\ table_result' = ParseSingleTable(f)
  /\ pc' = "table"
  /\ UNCHANGED <<content, preprocessed, src, tables, ddl, text, parts, sql_server_type,
                 params, databricks_type, raised, reparsed,
               user_prompt, accumulated, current_prompt, rounds, llm_raw_response, final_output,
               sql_text, chunk_size, chunks, start, idx, converted, output_file>>

NextTable == ParseSingleTableCall

SpecTable == Init /\ [][NextTable]_vars

\* final_output = call_llm_until_complete(..., user_prompt=full_prompt, ...)
\* (line 252) up to the loop: lines 196-197.
CallLlm ==
  /\ pc = "idle"
  /\ \E p \in {<<"P">>, <<"P", "Q">>} : user_prompt' = p /\ current_prompt' = p
  /\ accumulated' = <<>>
  /\ pc' = "llm_loop"
  /\ UNCHANGED <<content, preprocessed, src, tables, ddl, text, parts, sql_server_type,
                 params, databricks_type, raised, reparsed,
                 table_fragment, body_span, table_result,
                 rounds, llm_raw_response, final_output,
               sql_text, chunk_size, chunks, start, idx, converted, output_file>>

\* The loop's state after an iteration with response r.
Iterated(r, next) ==
  /\ rounds' = Append(rounds, [prompt |-> current_prompt, status_code |-> r.status_code,
                               output |-> OutputOf(r.data), reason |-> r.reason])
  /\ llm_raw_response' = IF r.status_code = 200 THEN r.data ELSE llm_raw_response
  /\ pc' = next.pc
  /\ accumulated' = next.accumulated
  /\ current_prompt' = next.current_prompt
  /\ final_output' = next.final_output

\* One iteration of `while True` (lines 198-238) and, when the loop is
\* left, the return of line 240: the request is posted and the endpoint
\* answers.
LlmRound ==
  /\ pc = "llm_loop"
  /\ \E r \in ResponsesAfter(rounds) :
       Iterated(r, Iteration(user_prompt, current_prompt, accumulated,
                             r.status_code, OutputOf(r.data), ExtractStopReason(r.data)))
  /\ UNCHANGED <<content, preprocessed, src, tables, ddl, text, parts, sql_server_type,
                 params, databricks_type, raised, reparsed,
                 table_fragment, body_span, table_result, user_prompt,
               sql_text, chunk_size, chunks, start, idx, converted, output_file>>

NextLlm == CallLlm \/ LlmRound

\* requests.post returns and the loop has no other wait than the
\* time.sleep(0.3) of line 234: an iteration that can be made is made.
SpecLlmFair == Init /\ [][NextLlm]_vars /\ WF_vars(LlmRound)

\* chunks = split_into_chunks(sql_text, CHUNK_SIZE) (line 87) up to the
\* loop: lines 30-31.
SplitCall ==
  /\ pc = "idle"
  /\ \E t \in ChunkTexts, n \in 1..MaxChunkSize : sql_text' = t /\ chunk_size' = n
  /\ chunks' = <<>> /\ start' = 0
  /\ pc' = "splitting"
  /\ UNCHANGED <<content, preprocessed, src, tables, ddl, text, parts, sql_server_type,
                 params, databricks_type, raised, reparsed,
                 table_fragment, body_span, table_result,
                 user_prompt, accumulated, current_prompt, rounds, llm_raw_response,
                 final_output, idx, converted, output_file>>

\* Lines 32-35: one iteration of the while loop.
SplitStep ==
  /\ pc = "splitting" /\ start < Len(sql_text)
  /\ chunks' = Append(chunks, Slice(sql_text, start,
                                    Min({start + chunk_size, Len(sql_text)})))
  /\ start' = Min({start + chunk_size, Len(sql_text)})
  /\ UNCHANGED <<pc, content, preprocessed, src, tables, ddl, text, parts, sql_server_type,
                 params, databricks_type, raised, reparsed,
                 table_fragment, body_span, table_result,
                 user_prompt, accumulated, current_prompt, rounds, llm_raw_response,
                 final_output, sql_text, chunk_size, idx, converted, output_file>>

\* Lines 32 and 36: the loop is left and chunks returned.
SplitReturn ==
  /\ pc = "splitting" /\ ~(start < Len(sql_text))
  /\ pc' = "chunked"
  /\ UNCHANGED <<content, preprocessed, src, tables, ddl, text, parts, sql_server_type,
                 params, databricks_type, raised, reparsed,
                 table_fragment, body_span, table_result,
                 user_prompt, accumulated, current_prompt, rounds, llm_raw_response,
                 final_output, sql_text, chunk_size, chunks, start, idx, converted,
                 output_file>>

\* process_and_write(chunks) (line 91) up to the loop: lines 63-65.
WriteHeader ==
  /\ pc = "chunked"
  /\ output_file' = <<OutputHeader>>
  /\ idx' = 0
  /\ pc' = "writing"
  /\ UNCHANGED <<content, preprocessed, src, tables, ddl, text, parts, sql_server_type,
                 params, databricks_type, raised, reparsed,
                 table_fragment, body_span, table_result,
                 user_prompt, accumulated, current_prompt, rounds, llm_raw_response,
                 final_output, sql_text, chunk_size, chunks, start, converted>>

\* Lines 67-75: one iteration of the for loop, call_llm returning.
WriteChunk ==
  /\ pc = "writing" /\ idx < Len(chunks)
  /\ \E converted_sql \in CallLlmResults(chunks[idx + 1]) :
       /\ converted' = Append(converted, [chunk |-> chunks[idx + 1],
                                          converted_sql |-> converted_sql])
       /\ output_file' = output_file \o converted_sql \o EndOfChunk(idx)
  /\ idx' = idx + 1
  /\ UNCHANGED <<pc, content, preprocessed, src, tables, ddl, text, parts, sql_server_type,
                 params, databricks_type, raised, reparsed,
                 table_fragment, body_span, table_result,
                 user_prompt, accumulated, current_prompt, rounds, llm_raw_response,
                 final_output, sql_text, chunk_size, chunks, start>>

\* Line 70: call_llm raises (the request failed) and the exception leaves
\* process_and_write.
WriteRaise ==
  /\ pc = "writing" /\ idx < Len(chunks)
  /\ pc' = "write_raised"
  /\ UNCHANGED <<content, preprocessed, src, tables, ddl, text, parts, sql_server_type,
                 params, databricks_type, raised, reparsed,
                 table_fragment, body_span, table_result,
                 user_prompt, accumulated, current_prompt, rounds, llm_raw_response,
                 final_output, sql_text, chunk_size, chunks, start, idx, converted,
                 output_file>>

\* Line 67: the chunks are exhausted and process_and_write returns.
WriteReturn ==
  /\ pc = "writing" /\ idx = Len(chunks)
  /\ pc' = "written"
  /\ UNCHANGED <<content, preprocessed, src, tables, ddl, text, parts, sql_server_type,
                 params, databricks_type, raised, reparsed,
                 table_fragment, body_span, table_result,
                 user_prompt, accumulated, current_prompt, rounds, llm_raw_response,
                 final_output, sql_text, chunk_size, chunks, start, idx, converted,
                 output_file>>

NextChunk ==
  SplitCall \/ SplitStep \/ SplitReturn \/ WriteHeader \/ WriteChunk \/ WriteRaise
    \/ WriteReturn

\* split_into_chunks makes no call that waits: a step of its loop that can
\* be made is made.
SpecChunkFair ==
  Init /\ [][NextChunk]_vars /\ WF_vars(SplitStep) /\ WF_vars(SplitReturn)

----------------------------------------------------------------------------
\* What a document was written to mean, for the properties below.

IsColumnItem(it) == it.kind = "col"
ColumnItems(items) == SelectSeq(items, IsColumnItem)

\* A statement with a header the name patterns accept and a closed column
\* list.
WellFormed(t) == t.closed /\ t.header.delim # "broken"
WellFormedTables(d) == SelectSeq(d.tabs, WellFormed)

\* parse_sql_server_ddl has returned for a well-formed single-table document.
SingleTableParsed == pc = "parsed" /\ Len(src.tabs) = 1 /\ WellFormed(src.tabs[1])

\* ... whose column list holds column definitions only.
ColumnsOnlyParsed ==
  SingleTableParsed /\ ColumnItems(src.tabs[1].items) = src.tabs[1].items

\* The document written again without its constraint clauses.
WithoutConstraints(d) ==
  [pre |-> d.pre,
   tabs |-> [i \in 1..Len(d.tabs) |->
               TableSrc(d.tabs[i].header, ColumnItems(d.tabs[i].items), d.tabs[i].closed)]]

\* The columns of the tables of a result, table by table.
ColumnsOfTables(ts) == [i \in 1..Len(ts) |-> ts[i].columns]

\* The (name, nullable) pairs of a column list.
NameNullability(cols) == [i \in 1..Len(cols) |-> <<cols[i].name, cols[i].nullable>>]

\* Whether the "(" at i and the ")" at j of t are a matching pair.
Balance(t, i, m) ==
  Cardinality({k \in i..m : t[k] = "("}) - Cardinality({k \in i..m : t[k] = ")"})
MatchingPair(t, i, j) ==
  /\ i < j /\ t[i] = "(" /\ t[j] = ")"
  /\ Balance(t, i, j) = 0
  /\ \A m \in i..j - 1 : Balance(t, i, m) >= 1
\* Whether position k of t lies inside a parenthesized span.
InsideSpan(t, k) ==
  \E i \in 1..k - 1 : \E j \in k + 1..Len(t) : MatchingPair(t, i, j)

----------------------------------------------------------------------------
\* Properties.

\* C1: for a well-formed single-table document, the stored schema (None
\* when absent) and name are exactly the identifiers of the header:
\* delimiters stripped, no whitespace around them, nothing from the column
\* list.
C1_NameIsIdentifier ==
  SingleTableParsed =>
    /\ Len(tables) = 1
    /\ tables[1].schema = src.tabs[1].header.schema
    /\ tables[1].name = src.tabs[1].header.name

\* C2: for a well-formed single-table document, exactly one table is
\* returned and it has as many columns as the column list has column
\* definitions, wherever a constraint clause stands and however the column
\* names are delimited.
C2_ColumnCount ==
  SingleTableParsed =>
    /\ Len(tables) = 1
    /\ Len(tables[1].columns) = Len(ColumnItems(src.tabs[1].items))

\* C3: a constraint clause is deleted as a whole before the columns are
\* split: the columns parsed are those of the same document written without
\* its constraint clauses (none added from inside a clause, none lost).
C3_ConstraintDeleted ==
  (SingleTableParsed /\ ColumnItems(src.tabs[1].items) # src.tabs[1].items) =>
    ColumnsOfTables(tables)
      = ColumnsOfTables(ParseSqlServerDdl(DocText(WithoutConstraints(src))).tables)

\* C4: parsing the column section of the rendered DDL of a table with at
\* least one column gives back the (name, nullable) pairs of the table.
C4_RenderParseIdempotent ==
  (pc = "reparsed" /\ Len(tables[ddl.index].columns) >= 1) =>
    NameNullability(reparsed) = NameNullability(tables[ddl.index].columns)

\* C5: _smart_split splits at no comma that lies inside a parenthesized
\* span, whether the text is balanced or not.
C5_NoSplitInsideSpan ==
  pc = "split" =>
    \A n \in 1..Len(parts.cuts) : ~InsideSpan(text, parts.cuts[n])

\* C6: parse_sql_server_ddl never raises; a statement whose column list is
\* not closed, or whose name cannot be matched, contributes no table, and
\* every other statement of the document contributes its table, in order.
C6_NeverRaises ==
  pc = "parsed" =>
    /\ ~raised
    /\ Len(tables) = Len(WellFormedTables(src))
    /\ \A i \in 1..Len(tables) :
         WellFormedTables(src)[i].header.name[1] \in Range(tables[i].name)

\* C6, reached: a document of two statements, the first without its
\* closing parenthesis, gives the table of the second alone.
C6_Witness ==
  /\ pc = "parsed" /\ ~raised
  /\ Len(src.tabs) = 2 /\ ~src.tabs[1].closed /\ WellFormed(src.tabs[2])
  /\ Len(tables) = 1
  /\ src.tabs[2].header.name[1] \in Range(tables[1].name)

\* C7: a parsed column is not nullable exactly when its definition carries
\* a NOT NULL marker after the type and its parameters, on whatever line.
C7_NullableIffNotNull ==
  (ColumnsOnlyParsed /\ Len(tables) = 1
     /\ Len(tables[1].columns) = Len(src.tabs[1].items)) =>
    \A i \in 1..Len(tables[1].columns) :
      tables[1].columns[i].nullable = ~src.tabs[1].items[i].notnull

\* C8: every column definition (identifier, base type, optional
\* parenthesized parameters, modifiers; identifier and type bare or in
\* brackets) gives a column with the identifier as name, the lower-cased
\* base type as type and the text between the parentheses as params.
C8_ColumnDecomposition ==
  ColumnsOnlyParsed =>
    /\ Len(tables) = 1
    /\ Len(tables[1].columns) = Len(src.tabs[1].items)
    /\ \A i \in 1..Len(tables[1].columns) :
         /\ tables[1].columns[i].name = src.tabs[1].items[i].name
         /\ tables[1].columns[i].type = Lower(src.tabs[1].items[i].type)
         /\ tables[1].columns[i].params = src.tabs[1].items[i].params

\* C9: float with params present gives FLOAT when the params are an integer
\* below 25, DOUBLE when they are an integer of 25 or more, and DOUBLE when
\* they are no integer.
C9_FloatPrecision ==
  (pc = "converted" /\ Lower(sql_server_type) = <<"float">> /\ Truthy(params)) =>
    databricks_type =
      (IF PyIntOk(params) /\ PyIntValue(params) < 25 THEN <<"FLOAT">> ELSE <<"DOUBLE">>)

\* C9, reached: float(10) gives FLOAT.
C9_Witness ==
  /\ pc = "converted"
  /\ sql_server_type = <<"float">> /\ params = <<"1", "0">>
  /\ databricks_type = <<"FLOAT">>

\* The result C10 states for a base type other than float.
StaticType(base_type) ==
  IF base_type \in {<<"char">>, <<"varchar">>, <<"nchar">>, <<"nvarchar">>,
                    <<"text">>, <<"ntext">>}
  THEN <<"STRING">>
  ELSE IF base_type = <<"money">> THEN <<"DECIMAL", "(", "1", "9", ",", "4", ")">>
  ELSE IF base_type = <<"smallmoney">> THEN <<"DECIMAL", "(", "1", "0", ",", "4", ")">>
  ELSE IF \E e \in type_mapping : e[1] = base_type
  THEN (CHOOSE e \in type_mapping : e[1] = base_type)[2]
  ELSE <<"STRING">>

\* C10: for a base type other than float, compared without regard to case,
\* the result is DECIMAL(params) for decimal and numeric with params, and
\* otherwise the static result of the base type, whatever the params.
C10_NonFloatTypes ==
  (pc = "converted" /\ Lower(sql_server_type) # <<"float">>) =>
    databricks_type =
      (IF Lower(sql_server_type) \in {<<"decimal">>, <<"numeric">>} /\ Truthy(params)
       THEN <<"DECIMAL", "(">> \o params \o <<")">>
       ELSE StaticType(Lower(sql_server_type)))

\* C10, reached: NUMERIC with params 10,2 gives DECIMAL(10,2).
C10_Witness ==
  /\ pc = "converted"
  /\ sql_server_type = <<"NUMERIC">> /\ params = <<"1", "0", ",", "2">>
  /\ databricks_type = <<"DECIMAL", "(", "1", "0", ",", "2", ")">>

RECURSIVE LinesFrom(_, _)
RECURSIVE LinesStep(_, _, _)
\* The lines of a text from position i on (the text split at its newlines).
LinesFrom(t, i) == LinesStep(t, i, NextOf(t, i, {"\n"}))
LinesStep(t, i, m) ==
  IF m = 0 THEN <<SubSeq(t, i, Len(t))>>
  ELSE <<SubSeq(t, i, m - 1)>> \o LinesFrom(t, m + 1)

IsPrefix(p, t) == Len(p) <= Len(t) /\ SubSeq(t, 1, Len(p)) = p

\* Whether the sequence `got` follows the order of `written`: its elements
\* can be assigned, in increasing order, to elements of `written` whose
\* identifier they carry.
InOrderOf(got, written) ==
  \E f \in [1..Len(got) -> 1..Len(written)] :
    /\ \A k \in 1..Len(got) : written[f[k]] \in Range(got[k])
    /\ \A k \in 1..Len(got) - 1 : f[k] < f[k + 1]

\* The identifiers written in a document: of its statements, and of the
\* column definitions of statement i.
WrittenTables(d) == [i \in 1..Len(d.tabs) |-> d.tabs[i].header.name[1]]
WrittenColumns(t) ==
  [i \in 1..Len(ColumnItems(t.items)) |-> ColumnItems(t.items)[i].name[1]]
Names(rs) == [i \in 1..Len(rs) |-> rs[i].name]

\* The statement of the document a parsed table comes from: the well-formed
\* ones give the tables one for one (C6).
StatementOf(i) == WellFormedTables(src)[i]

\* The rendered text has one line per column, in the order of the columns:
\* line k + 1 is "  <name of column k> <type>..." and ends with a comma
\* unless it is the last.
OneLinePerColumn(rendered, columns) ==
  LET lines == LinesFrom(rendered, 1) IN
  /\ Len(lines) = Len(columns) + 3
  /\ \A k \in 1..Len(columns) :
       /\ IsPrefix(<<" ", " ">> \o columns[k].name \o <<" ">>, lines[k + 1])
       /\ (lines[k + 1][Len(lines[k + 1])] = ",") = (k < Len(columns))

\* C11: the tables come in the order of their statements, the columns of a
\* table in the order of their definitions, and the rendered text has one
\* column line per column in that order.
C11_OrderPreserved ==
  /\ pc \in {"parsed", "generated", "reparsed"} =>
       /\ InOrderOf(Names(tables), WrittenTables(src))
       /\ \A i \in 1..Len(tables) :
            InOrderOf(Names(tables[i].columns), WrittenColumns(StatementOf(i)))
  /\ (pc \in {"generated", "reparsed"} /\ Len(tables[ddl.index].columns) >= 1) =>
       OneLinePerColumn(ddl.text, tables[ddl.index].columns)

\* Whether a name and a balanced column-list body are found in a fragment.
NameAndBodyFound(fragment) ==
  /\ TableNameMatch(fragment) # NoneRec
  /\ FindBody(fragment).start_idx # -1
  /\ FindBody(fragment).end_idx # -1
FoundFragments(c) == SelectSeq(TablesRaw(c), NameAndBodyFound)

\* C12: every fragment whose name and balanced body are found gives a table
\* of the result, in order and under the matched name, also when no column
\* is parsed from it.
C12_EmptyTableKept ==
  pc = "parsed" =>
    /\ Len(tables) = Len(FoundFragments(content))
    /\ \A i \in 1..Len(tables) :
         tables[i].name = TableNameMatch(FoundFragments(content)[i]).name

\* C12, reached: a statement with a constraint clause and a column
\* definition from which no column is parsed is returned with no columns.
C12_Witness ==
  /\ pc = "parsed" /\ Len(src.tabs) = 1
  /\ ColumnItems(src.tabs[1].items) # <<>>
  /\ Len(tables) = 1 /\ tables[1].columns = <<>>

\* A GO line, and a line beginning with USE or SET.
IsGoLine(l) == UpperAtom(l[1]) = "GO" /\ \A k \in 2..Len(l) : IsWS(l[k])
IsStatementLine(l) == UpperAtom(l[1]) \in {"USE", "SET"}

\* The first line from i on that holds a comment closer, or 0.
CloserFrom(ls, i) ==
  IF \E j \in i..Len(ls) : "*/" \in Range(ls[j])
  THEN Min({j \in i..Len(ls) : "*/" \in Range(ls[j])})
  ELSE 0

RECURSIVE KeptLines(_, _)
\* The lines of ls from i on that are to reach the structural parser: not the
\* lines of a block comment (from a line that opens one to the first line
\* that closes it), not the GO, USE and SET lines outside comments; a comment
\* opener that is never closed stays.
KeptLines(ls, i) ==
  IF i > Len(ls) THEN <<>>
  ELSE IF "/*" \in Range(ls[i])
  THEN IF CloserFrom(ls, i) = 0 THEN <<ls[i]>> \o KeptLines(ls, i + 1)
       ELSE KeptLines(ls, CloserFrom(ls, i) + 1)
  ELSE IF IsGoLine(ls[i]) \/ IsStatementLine(ls[i]) THEN KeptLines(ls, i + 1)
  ELSE <<ls[i]>> \o KeptLines(ls, i + 1)

IsNonBlank(l) == Strip(l) # <<>>

\* C13: of a document written line by line, exactly the GO lines, the USE and
\* SET lines and the block comments are removed by lines 70-73: the lines
\* that are not blank after them are the other lines, unchanged and in
\* order.
C13_PreprocessRemovesExactly ==
  pc = "parsed" =>
    SelectSeq(LinesFrom(preprocessed, 1), IsNonBlank) = KeptLines(src.lines, 1)


\* The first "(" of t (0 when there is none) and the ")" that matches the
\* "(" at i (0 when there is none).
FirstOpen(t) == NextOf(t, 1, {"("})
MatchOf(t, i) ==
  LET js == {j \in i + 1..Len(t) : MatchingPair(t, i, j)}
  IN  IF js = {} THEN 0 ELSE Min(js)
\* The span the scan is to report for t, as Python indices: the position
\* after the first "(" and the position of its matching ")"; not found is
\* an index left at -1.
BalancedSpan(t, first, match) ==
  IF first = 0 \/ match = 0 THEN [start_idx |-> -1, end_idx |-> -1]
  ELSE [start_idx |-> first, end_idx |-> match - 1]
Found(s) == s.start_idx # -1 /\ s.end_idx # -1
SameSpan(got, want) ==
  IF Found(want) THEN got = want ELSE ~Found(got)

\* C14: whenever the paren-depth scan of _parse_single_table has run, the
\* span it chose starts after the first "(" of the fragment and ends at the
\* ")" matching that "(", nested parentheses included; when the first "("
\* has no matching ")" the scan chooses no span and the table is skipped
\* (None is returned), and the call does not raise.
C14_BalancedSpan ==
  (pc = "table" /\ body_span # NoneRec) =>
    /\ SameSpan(body_span, BalancedSpan(table_fragment, FirstOpen(table_fragment),
                                   MatchOf(table_fragment, FirstOpen(table_fragment))))
    /\ table_result # Raised
    /\ (table_result = NoneRec) = ~Found(body_span)


\* The rounds of a call: a round is good when the response had status 200
\* and a non-empty output, and cut when moreover its stop reason is one of
\* the token-limit ones.
GoodRound(r) == r.status_code = 200 /\ Truthy(r.output)
CutRound(r) == GoodRound(r) /\ r.reason \in LimitStops
\* The outputs of the first n rounds, concatenated in round order.
OutputsUpTo(rs, n) == Flatten([i \in 1..n |-> rs[i].output])
\* The atoms of a prompt that are no framing text of the continuation.
IsPromptText(a) == a \notin {PartialOutputHeader, ContinueInstruction}
\* Round i > 1 follows a cut round and its prompt is the original prompt
\* followed by all the output accumulated before it.
IsContinuation(rs, i, prompt) ==
  /\ CutRound(rs[i - 1])
  /\ IsPrefix(prompt, rs[i].prompt)
  /\ SelectSeq(rs[i].prompt, IsPromptText) = prompt \o OutputsUpTo(rs, i - 1)
Ended == pc \in {"llm_returned", "llm_raised"}
RoundsInOrder ==
  /\ \A i \in 1..Len(rounds) :
       IF i = 1 THEN rounds[i].prompt = user_prompt
       ELSE IsContinuation(rounds, i, user_prompt)
  /\ (pc = "llm_loop" /\ rounds # <<>>) => CutRound(rounds[Len(rounds)])
  /\ (Ended => rounds # <<>> /\ ~CutRound(rounds[Len(rounds)]))
ReturnsWhenComplete ==
  pc = "llm_returned" =>
    /\ GoodRound(rounds[Len(rounds)])
    /\ rounds[Len(rounds)].reason \in NormalStops
    /\ final_output = [returned |-> OutputsUpTo(rounds, Len(rounds))]
RaisesInsteadOfPartial ==
  /\ \A i \in 1..Len(rounds) :
       ~GoodRound(rounds[i]) => i = Len(rounds) /\ pc = "llm_raised"
  /\ pc = "llm_raised" =>
       /\ ~GoodRound(rounds[Len(rounds)])
       /\ final_output = [raised |-> "RuntimeError"]

\* C15: call_llm_until_complete makes one request per round; after a
\* response cut at the token limit it sends a further request whose prompt
\* is the original prompt followed by all the output accumulated so far; it
\* returns only after a response with a normal or absent stop reason, and
\* then returns the outputs of all rounds concatenated in round order; a
\* non-200 response or an empty output raises RuntimeError and nothing is
\* returned; and when the endpoint stops cutting the output, the call ends.
C15_RoundsUntilComplete ==
  /\ [](RoundsInOrder /\ ReturnsWhenComplete /\ RaisesInsteadOfPartial)
  /\ (pc = "llm_loop" ~> Ended)

\* A call that returned after two cut rounds and a third, complete one.
C15_Witness ==
  /\ pc = "llm_returned" /\ Len(rounds) = 3
  /\ CutRound(rounds[1]) /\ CutRound(rounds[2])
  /\ final_output.returned = rounds[1].output \o rounds[2].output \o rounds[3].output


\* What process_and_write has written after the calls cs of call_llm: the
\* converted texts in call order, each followed by the marker of its chunk.
RECURSIVE WrittenFor(_, _)
WrittenFor(cs, n) ==
  IF n = 0 THEN <<>>
  ELSE WrittenFor(cs, n - 1) \o cs[n].converted_sql \o
       <<"\n\n-- END OF CHUNK ">> \o Decimal(n) \o <<"\n\n">>
IsMarker(a) == a = "\n\n-- END OF CHUNK "
Split == pc \in {"chunked", "writing", "written", "write_raised"}
IsPartition ==
  Split =>
    /\ Flatten(chunks) = sql_text
    /\ \A i \in 1..Len(chunks) : Len(chunks[i]) >= 1 /\ Len(chunks[i]) <= chunk_size
    /\ \A i \in 1..Len(chunks) - 1 : Len(chunks[i]) = chunk_size
    /\ (sql_text = <<>> => chunks = <<>>)
WrittenInOrder ==
  pc \in {"writing", "written", "write_raised"} =>
    /\ Len(converted) = idx /\ idx <= Len(chunks)
    /\ \A i \in 1..Len(converted) : converted[i].chunk = chunks[i]
    /\ output_file = <<OutputHeader>> \o WrittenFor(converted, Len(converted))
    /\ (pc = "written" =>
          /\ Len(converted) = Len(chunks)
          /\ Len(SelectSeq(output_file, IsMarker)) = Len(chunks))

\* C16: split_into_chunks(text, chunk_size) with chunk_size >= 1 ends, and
\* its chunks concatenated in order are the text, each chunk is non-empty
\* and at most chunk_size long, each but the last exactly chunk_size long,
\* and the empty text has no chunks; process_and_write writes the converted
\* chunks in the order of the chunks, each followed by one END OF CHUNK
\* marker with the chunk's number.
C16_ChunksPartitionText ==
  /\ [](IsPartition /\ WrittenInOrder)
  /\ (pc = "splitting" ~> pc = "chunked")

\* A text split into two chunks, the last one shorter, both written.
C16_Witness ==
  /\ pc = "written" /\ Len(chunks) = 2 /\ chunk_size = 3
  /\ Len(chunks[2]) = 1 /\ Len(converted) = 2

====
